---- MODULE Spec2Model ----
(***************************************************************************)
(* Model of segmentation_dataset_augmentation.py: a script that lists the  *)
(* images of X/, pairs each with y/mask_<id>.png, applies five fixed       *)
(* Albumentations transforms to every pair and writes the results under    *)
(* augmented_x/<Transform>/ and augmented_y/<Transform>/.                  *)
(*                                                                         *)
(* File names are sequences of one-character strings, so that lower(),     *)
(* endswith(), split() and the [:-4] slice are computed as Python computes *)
(* them.  A decoded image is its shape <<h, w>>; a decoded mask is         *)
(* <<h, w, label>>, label standing for its pixel content; <<>> is None,    *)
(* what cv2.imread returns for a file it cannot decode.                    *)
(***************************************************************************)
EXTENDS Integers, Sequences, FiniteSets, TLC

VARIABLES
    dirX,           \* os.listdir(IMAGE_DIR): the entries of X/, in listing order
    xData,          \* what cv2.imread gives for each listed image file
    yData,          \* the files of y/: mask file name -> what cv2.imread gives
    rng,            \* state of the library's (unseeded) random generator
    run,            \* "first" invocation of the script, or the "second"
    pc,             \* position of the script
    error,          \* the exception that ended the run, "" when none
    image_files,    \* line 136
    total_outputs,  \* line 143
    counter,        \* line 154
    idx,            \* position of `for image_name in image_files`
    image,          \* line 159
    base_id,        \* line 167
    mask,           \* line 175
    tix,            \* position of `for transform in TRANSFORMATIONS`
    augmented,      \* line 189: <<augmented["image"], augmented["mask"]>>
    dirs,           \* directories made under the output roots
    disk,           \* files under the output roots: path -> content
    out,            \* lines printed to standard output during this run
    wlog            \* cv2.imwrite calls of this run, in order: <<idx, path>>

vars == <<dirX, xData, yData, rng, run, pc, error, image_files, total_outputs,
          counter, idx, image, base_id, mask, tix, augmented, dirs, disk, out, wlog>>

inputs == <<dirX, xData, yData>>

----------------------------------------------------------------------------
(* Bounds of the model *)

MaxFiles == 2       \* entries of X/
MaxDim == 2         \* heights and widths are in 1..MaxDim

----------------------------------------------------------------------------
(* Configuration, lines 65-73 and 85-130 *)

IMAGE_DIR == "X"
MASK_DIR == "y"
OUT_IMAGE_ROOT == "augmented_x"
OUT_MASK_ROOT == "augmented_y"
IMAGE_EXTENSION == <<".", "j", "p", "g">>

\* Mutant: the geometric transform is applied first
TRANSFORMATIONS_Reordered ==
    <<"ShiftScaleRotate", "RandomBrightnessContrast", "Defocus", "GlassBlur", "ISONoise">>

TRANSFORMATIONS ==
    <<"RandomBrightnessContrast", "Defocus", "GlassBlur", "ISONoise", "ShiftScaleRotate">>

\* The transforms that are ImageOnlyTransform in the library: mask passes through.
ImageOnly == {"RandomBrightnessContrast", "Defocus", "GlassBlur", "ISONoise"}

None == <<>>

----------------------------------------------------------------------------
(* Python string operations on file names *)

Lower(c) ==
    CASE c = "J" -> "j" [] c = "P" -> "p" [] c = "G" -> "g" [] OTHER -> c

LowerStr(s) == [k \in 1..Len(s) |-> Lower(s[k])]

EndsWith(s, suf) ==
    /\ Len(s) >= Len(suf)
    /\ SubSeq(s, Len(s) - Len(suf) + 1, Len(s)) = suf

\* str.split(d): the pieces of s between the occurrences of d
RECURSIVE Split(_, _)
Split(s, d) ==
    IF \E k \in 1..Len(s) : s[k] = d
    THEN LET k == CHOOSE k \in 1..Len(s) : s[k] = d /\ \A m \in 1..(k - 1) : s[m] # d
         IN  <<SubSeq(s, 1, k - 1)>> \o Split(SubSeq(s, k + 1, Len(s)), d)
    ELSE <<s>>

\* f.lower().endswith(IMAGE_EXTENSION), line 138
IsImageFile(f) == EndsWith(LowerStr(f), IMAGE_EXTENSION)

\* image_name.split("_")[1] exists, line 167 (IndexError otherwise)
HasDelimiter(name) == Len(Split(name, "_")) >= 2

\* image_name.split("_")[1].split(".")[0], line 167
BaseId(name) == Split(Split(name, "_")[2], ".")[1]

\* f"mask_{base_id}.png", line 168
MaskName(id) == <<"mask_">> \o id \o <<".png">>

\* os.path.join(MASK_DIR, mask_name), line 169
MaskPath(id) == <<MASK_DIR, MaskName(id)>>

\* image_name[:-4], line 194
Stem(name) == SubSeq(name, 1, Len(name) - 4)

\* Mutant: the output name carries the run, so that a rerun overwrites nothing
OutImageFile_PerRun(name, tn) == Stem(name) \o <<"-", tn, "-", run, ".jpg">>

\* f"{image_name[:-4]}-{transform_name}.jpg", line 194
OutImageFile(name, tn) == Stem(name) \o <<"-", tn, ".jpg">>

\* f"mask_{base_id}-{transform_name}.png", line 199
OutMaskFile(id, tn) == <<"mask_">> \o id \o <<"-", tn, ".png">>

\* os.path.join(out_img_dir, ...), lines 182 and 192-195
OutImagePath(name, tn) == <<OUT_IMAGE_ROOT, tn, OutImageFile(name, tn)>>

\* Mutant: the mask is joined to out_img_dir instead of out_mask_dir
OutMaskPath_InImageDir(id, tn) == <<OUT_IMAGE_ROOT, tn, OutMaskFile(id, tn)>>

\* os.path.join(out_mask_dir, ...), lines 183 and 197-200
OutMaskPath(id, tn) == <<OUT_MASK_ROOT, tn, OutMaskFile(id, tn)>>

----------------------------------------------------------------------------
(* The library calls *)

Shape(a) == <<a[1], a[2]>>

Labels == {"A", "B"}

\* A warp drawn by the random generator either moves the labels or leaves them.
Warp(label, r) == IF r THEN (IF label = "A" THEN "B" ELSE "A") ELSE label

\* cv2.imread(image_path), line 159
ReadImage(name) == xData[name]

\* Mutant: the existence check is left out
MaskExists_Always(id) == TRUE

\* os.path.exists(mask_path), line 171
MaskExists(id) == MaskName(id) \in DOMAIN yData

\* cv2.imread(mask_path, cv2.IMREAD_GRAYSCALE), line 175: None for a file that
\* is missing or does not decode
ReadMask(id) == IF MaskName(id) \in DOMAIN yData THEN yData[MaskName(id)] ELSE None

\* augmented["image"]: every one of the five transforms keeps the image's shape
ApplyToImage(tn, img) == img

\* The shapes the warped mask can have: the library warps the mask either to the
\* mask's own shape or to the image's shape, depending on its version.
MaskShapeChoices(tn, img, msk) ==
    IF tn \in ImageOnly \/ msk = None THEN {None} ELSE {Shape(msk), Shape(img)}

\* Mutant: the warp writes its result with height and width exchanged
ApplyToMask_Transposed(tn, img, msk, r, shp) ==
    IF msk = None THEN None
    ELSE IF tn \in ImageOnly THEN msk
    ELSE <<shp[2], shp[1], Warp(msk[3], r)>>

\* Mutant: Defocus blurs the mask as well as the image
ApplyToMask_AlsoBlurs(tn, img, msk, r, shp) ==
    IF msk = None THEN None
    ELSE IF tn = "Defocus" THEN <<msk[1], msk[2], Warp(msk[3], TRUE)>>
    ELSE IF tn \in ImageOnly THEN msk
    ELSE <<shp[1], shp[2], Warp(msk[3], r)>>

\* augmented["mask"]: a None mask is passed through; an image-only transform
\* returns the mask it was given; ShiftScaleRotate warps it.  A transform called
\* directly (not through A.Compose) compares no shapes.
ApplyToMask(tn, img, msk, r, shp) ==
    IF msk = None THEN None
    ELSE IF tn \in ImageOnly THEN msk
    ELSE <<shp[1], shp[2], Warp(msk[3], r)>>

\* cv2.imwrite(path, content): creates the file or overwrites it
Write(d, p, v) == [q \in (DOMAIN d) \cup {p} |-> IF q = p THEN v ELSE d[q]]

\* os.makedirs(out_img_dir, exist_ok=True); os.makedirs(out_mask_dir, exist_ok=True)
MakeDirs(ds, tn) == ds \cup {<<OUT_IMAGE_ROOT, tn>>, <<OUT_MASK_ROOT, tn>>}

\* Mutant: the total counts only the images that will be processed
TotalOutputs_PairedOnly(files) ==
    Len(SelectSeq(files, LAMBDA f : /\ xData[f] # None
                                    /\ HasDelimiter(f)
                                    /\ MaskName(BaseId(f)) \in DOMAIN yData))
        * Len(TRANSFORMATIONS)

\* total_outputs = num_images * num_augs, lines 141-143
TotalOutputs(files) == Len(files) * Len(TRANSFORMATIONS)

\* counter += 1, line 207
NextCounter(c) == c + 1

----------------------------------------------------------------------------
(* Inputs *)

I_1_jpg == <<"i", "_", "1", ".", "j", "p", "g">>
I_1_JPG == <<"i", "_", "1", ".", "J", "P", "G">>
I_2_jpg == <<"i", "_", "2", ".", "j", "p", "g">>
K_1_jpg == <<"k", "_", "1", ".", "j", "p", "g">>
X_jpg == <<"x", ".", "j", "p", "g">>
I_3_png == <<"i", "_", "3", ".", "p", "n", "g">>

\* Names that can be in X/: the documented shape image_<id>.jpg, the same name
\* with an upper-case extension, another prefix with the same id, a name
\* without the delimiter, and a file that is no .jpg.
NamePool == {I_1_jpg, I_1_JPG, I_2_jpg, K_1_jpg, X_jpg, I_3_png}

\* The names of the second input family, where the shapes vary instead.
ShapePool == {I_1_jpg, X_jpg}

Dims == (1..MaxDim) \X (1..MaxDim)

\* A directory listing: at most MaxFiles distinct names, in any order
Listings(pool) ==
    {s \in UNION {[1..n -> pool] : n \in 0..MaxFiles} :
        \A a, b \in 1..Len(s) : a # b => s[a] # s[b]}

Discovered(dir) == {dir[k] : k \in {m \in 1..Len(dir) : IsImageFile(dir[m])}}

ExpectedMasks(dir) ==
    {MaskName(BaseId(n)) : n \in {m \in Discovered(dir) : HasDelimiter(m)}}

\* The decoded masks of the given shapes
Masks(shapes) == {<<s[1], s[2], l>> : s \in shapes, l \in Labels}

InitInputs(pool, shapes) ==
    /\ dirX \in Listings(pool)
    /\ xData \in [Discovered(dirX) -> {None} \cup shapes]
    /\ yData \in UNION {[d -> {None} \cup Masks(shapes)] : d \in SUBSET ExpectedMasks(dirX)}

InitScript ==
    /\ rng \in BOOLEAN
    /\ run = "first"
    /\ pc = "start"
    /\ error = ""
    /\ image_files = <<>>
    /\ total_outputs = 0
    /\ counter = 1
    /\ idx = 1
    /\ image = None
    /\ base_id = <<>>
    /\ mask = None
    /\ tix = 1
    /\ augmented = <<None, None>>
    /\ dirs = {}
    /\ disk = <<>>
    /\ out = <<>>
    /\ wlog = <<>>

\* Every kind of file name, all images and masks of one shape
Init == InitInputs(NamePool, {<<1, 1>>}) /\ InitScript

\* Few file names, every shape of image and of mask
InitShapes == InitInputs(ShapePool, Dims) /\ InitScript

----------------------------------------------------------------------------
(* The script *)

\* Lines 136-154: list X/, keep the .jpg files, print the statistics
Scan ==
    /\ pc = "start"
    /\ image_files' = SelectSeq(dirX, IsImageFile)
    /\ total_outputs' = TotalOutputs(image_files')
    /\ out' = out \o <<<<"stats", Len(image_files'), Len(TRANSFORMATIONS), total_outputs'>>>>
    /\ counter' = 1
    /\ idx' = 1
    /\ pc' = "loop"
    /\ UNCHANGED <<inputs, rng, run, error, image, base_id, mask, tix, augmented,
                   dirs, disk, wlog>>

\* Mutant: `break` in the place of `continue`
SkipUnreadable_Break ==
    /\ pc = "loop"
    /\ idx <= Len(image_files)
    /\ ReadImage(image_files[idx]) = None
    /\ image' = None
    /\ out' = Append(out, <<"warn_image", image_files[idx]>>)
    /\ idx' = Len(image_files) + 1
    /\ UNCHANGED <<inputs, rng, run, pc, error, image_files, total_outputs, counter,
                   base_id, mask, tix, augmented, dirs, disk, wlog>>

\* Lines 158-163: the image does not decode; warn and continue
SkipUnreadable ==
    /\ pc = "loop"
    /\ idx <= Len(image_files)
    /\ ReadImage(image_files[idx]) = None
    /\ image' = None
    /\ out' = Append(out, <<"warn_image", image_files[idx]>>)
    /\ idx' = idx + 1
    /\ UNCHANGED <<inputs, rng, run, pc, error, image_files, total_outputs, counter,
                   base_id, mask, tix, augmented, dirs, disk, wlog>>

\* Mutant: the IndexError is caught, the file warned about and skipped
CrashNoDelimiter_Skip ==
    /\ pc = "loop"
    /\ idx <= Len(image_files)
    /\ ReadImage(image_files[idx]) # None
    /\ ~HasDelimiter(image_files[idx])
    /\ image' = ReadImage(image_files[idx])
    /\ out' = Append(out, <<"warn_image", image_files[idx]>>)
    /\ idx' = idx + 1
    /\ UNCHANGED <<inputs, rng, run, pc, error, image_files, total_outputs, counter,
                   base_id, mask, tix, augmented, dirs, disk, wlog>>

\* Line 167: the image decoded and its name has no "_": split("_")[1] raises
\* IndexError, which nothing catches
CrashNoDelimiter ==
    /\ pc = "loop"
    /\ idx <= Len(image_files)
    /\ ReadImage(image_files[idx]) # None
    /\ ~HasDelimiter(image_files[idx])
    /\ image' = ReadImage(image_files[idx])
    /\ error' = "IndexError"
    /\ pc' = "crashed"
    /\ UNCHANGED <<inputs, rng, run, image_files, total_outputs, counter, idx,
                   base_id, mask, tix, augmented, dirs, disk, out, wlog>>

\* Lines 167-173: the mask file does not exist; warn and continue
SkipNoMask ==
    /\ pc = "loop"
    /\ idx <= Len(image_files)
    /\ ReadImage(image_files[idx]) # None
    /\ HasDelimiter(image_files[idx])
    /\ ~MaskExists(BaseId(image_files[idx]))
    /\ image' = ReadImage(image_files[idx])
    /\ base_id' = BaseId(image_files[idx])
    /\ out' = Append(out, <<"warn_mask", MaskPath(base_id')>>)
    /\ idx' = idx + 1
    /\ UNCHANGED <<inputs, rng, run, pc, error, image_files, total_outputs, counter,
                   mask, tix, augmented, dirs, disk, wlog>>

\* Lines 158-177: the image decoded and the mask file exists; read the mask
\* and enter the loop over the transforms
LoadPair ==
    /\ pc = "loop"
    /\ idx <= Len(image_files)
    /\ ReadImage(image_files[idx]) # None
    /\ HasDelimiter(image_files[idx])
    /\ MaskExists(BaseId(image_files[idx]))
    /\ image' = ReadImage(image_files[idx])
    /\ base_id' = BaseId(image_files[idx])
    /\ mask' = ReadMask(base_id')
    /\ tix' = 1
    /\ pc' = "aug"
    /\ UNCHANGED <<inputs, rng, run, error, image_files, total_outputs, counter, idx,
                   augmented, dirs, disk, out, wlog>>

\* Lines 179-207, one pass of the inner loop: make the directories, apply the
\* transform, write the image and the mask, print the progress line
Augment ==
    /\ pc = "aug"
    /\ mask # None
    /\ LET tn == TRANSFORMATIONS[tix]
           ip == OutImagePath(image_files[idx], tn)
           mp == OutMaskPath(base_id, tn)
       IN  /\ \E shp \in MaskShapeChoices(tn, image, mask) :
                augmented' = <<ApplyToImage(tn, image), ApplyToMask(tn, image, mask, rng, shp)>>
           /\ dirs' = MakeDirs(dirs, tn)
           /\ disk' = Write(Write(disk, ip, augmented'[1]), mp, augmented'[2])
           /\ wlog' = wlog \o <<<<idx, ip>>, <<idx, mp>>>>
           /\ out' = Append(out, <<"saved", counter, total_outputs, tn>>)
    /\ counter' = NextCounter(counter)
    /\ rng' = ~rng
    /\ IF tix < Len(TRANSFORMATIONS)
       THEN /\ tix' = tix + 1
            /\ UNCHANGED <<pc, idx>>
       ELSE /\ idx' = idx + 1
            /\ pc' = "loop"
            /\ UNCHANGED tix
    /\ UNCHANGED <<inputs, run, error, image_files, total_outputs, image, base_id, mask>>

\* Lines 175-204 when the mask file exists and does not decode: mask is None,
\* the transform passes it through, the image is written, and
\* cv2.imwrite(out_mask_path, None) raises cv2.error, which nothing catches
AugmentFail ==
    /\ pc = "aug"
    /\ mask = None
    /\ LET tn == TRANSFORMATIONS[tix]
           ip == OutImagePath(image_files[idx], tn)
       IN  /\ augmented' = <<ApplyToImage(tn, image), None>>
           /\ dirs' = MakeDirs(dirs, tn)
           /\ disk' = Write(disk, ip, augmented'[1])
           /\ wlog' = Append(wlog, <<idx, ip>>)
    /\ rng' = ~rng
    /\ error' = "cv2.error"
    /\ pc' = "crashed"
    /\ UNCHANGED <<inputs, run, image_files, total_outputs, counter, idx, image,
                   base_id, mask, tix, out>>

\* Line 210: the loop over the images is exhausted
Finish ==
    /\ pc = "loop"
    /\ idx > Len(image_files)
    /\ out' = Append(out, <<"completed">>)
    /\ pc' = "done"
    /\ UNCHANGED <<inputs, rng, run, error, image_files, total_outputs, counter, idx,
                   image, base_id, mask, tix, augmented, dirs, disk, wlog>>

\* The script is started again on the same X/ and y/: a new process, a new
\* seed, the output directories as the first run left them
Rerun ==
    /\ pc \in {"done", "crashed"}
    /\ run = "first"
    /\ run' = "second"
    /\ rng' \in BOOLEAN
    /\ pc' = "start"
    /\ error' = ""
    /\ image_files' = <<>>
    /\ total_outputs' = 0
    /\ counter' = 1
    /\ idx' = 1
    /\ image' = None
    /\ base_id' = <<>>
    /\ mask' = None
    /\ tix' = 1
    /\ augmented' = <<None, None>>
    /\ out' = <<>>
    /\ wlog' = <<>>
    /\ UNCHANGED <<inputs, dirs, disk>>

Next ==
    \/ Scan
    \/ SkipUnreadable
    \/ CrashNoDelimiter
    \/ SkipNoMask
    \/ LoadPair
    \/ Augment
    \/ AugmentFail
    \/ Finish
    \/ Rerun

Spec == Init /\ [][Next]_vars

SpecShapes == InitShapes /\ [][Next]_vars

----------------------------------------------------------------------------
(* Vocabulary of the properties *)

\* The j-th discovered image, and what the input directories hold for it
Name(j) == image_files[j]
Decoded(j) == xData[Name(j)] # None
MaskMissing(j) == HasDelimiter(Name(j)) /\ MaskName(BaseId(Name(j))) \notin DOMAIN yData
Paired(j) ==
    /\ Decoded(j)
    /\ HasDelimiter(Name(j))
    /\ MaskName(BaseId(Name(j))) \in DOMAIN yData

ListOrder ==
    <<"RandomBrightnessContrast", "Defocus", "GlassBlur", "ISONoise", "ShiftScaleRotate">>

\* The writes of this run made while image j was processed, in order
WritesOf(j) == SelectSeq(wlog, LAMBDA w : w[1] = j)

\* The paths under `root`/tn written for image j in this run and now on disk
OutputsIn(j, root, tn) ==
    {q \in DOMAIN disk : q[1] = root /\ q[2] = tn /\ \E k \in 1..Len(wlog) : wlog[k] = <<j, q>>}

AllWritten(j) ==
    /\ \A t \in 1..5 :
         /\ Cardinality(OutputsIn(j, "augmented_x", ListOrder[t])) = 1
         /\ Cardinality(OutputsIn(j, "augmented_y", ListOrder[t])) = 1
         /\ {<<"augmented_x", ListOrder[t]>>, <<"augmented_y", ListOrder[t]>>} \subseteq dirs
    /\ Len(SelectSeq(WritesOf(j), LAMBDA w : w[2][1] = "augmented_x")) = 5
    /\ Len(SelectSeq(WritesOf(j), LAMBDA w : w[2][1] = "augmented_y")) = 5

Warned(j) ==
    \E k \in 1..Len(out) :
        \/ out[k] = <<"warn_image", Name(j)>>
        \/ HasDelimiter(Name(j)) /\ out[k] = <<"warn_mask", <<"y", MaskName(BaseId(Name(j)))>>>>

SavedLines == SelectSeq(out, LAMBDA l : l[1] = "saved")
WarningLines == SelectSeq(out, LAMBDA l : l[1] \in {"warn_image", "warn_mask"})

\* The image and mask written by the latest pass of the inner loop
LastPairWritten ==
    /\ Len(wlog) >= 2
    /\ wlog[Len(wlog)][2][1] = "augmented_y"
LastImagePath == wlog[Len(wlog) - 1][2]
LastMaskPath == wlog[Len(wlog)][2]
LastSource == wlog[Len(wlog)][1]
LastInputMask == yData[MaskName(BaseId(Name(LastSource)))]

----------------------------------------------------------------------------
(* C1 *)

\* C1: when a run has ended without a fatal error, every discovered image that
\* decoded and whose mask file exists has exactly five image outputs and five
\* mask outputs, one of each in every transform's subdirectory of augmented_x/
\* and augmented_y/, and they are on disk.
C1_FiveOutputsPerPair ==
    pc = "done" => \A j \in 1..Len(image_files) : Paired(j) => AllWritten(j)

\* A completed run that processed one pair and skipped another image
C1_Witness ==
    /\ pc = "done"
    /\ \E j, k \in 1..Len(image_files) : Paired(j) /\ ~Paired(k)

----------------------------------------------------------------------------
(* C2 *)

C2_NothingWritten ==
    \A j \in 1..Len(image_files) :
        MaskMissing(j) =>
            /\ Len(WritesOf(j)) = 0
            /\ \A t \in 1..5 :
                 /\ <<"augmented_x", ListOrder[t], Stem(Name(j)) \o <<"-", ListOrder[t], ".jpg">>>>
                        \notin DOMAIN disk
                 /\ <<"augmented_y", ListOrder[t],
                      <<"mask_">> \o BaseId(Name(j)) \o <<"-", ListOrder[t], ".png">>>>
                        \notin DOMAIN disk
            /\ (j < idx => Warned(j))

C2_SkipStep ==
    (/\ pc = "loop"
     /\ idx <= Len(image_files)
     /\ Decoded(idx)
     /\ MaskMissing(idx))
    => /\ out' = Append(out, <<"warn_mask", <<"y", MaskName(BaseId(Name(idx)))>>>>)
       /\ disk' = disk
       /\ wlog' = wlog
       /\ counter' = counter
       /\ idx' = idx + 1
       /\ pc' = "loop"

\* C2: a discovered image whose mask file mask_<id>.png does not exist gets a
\* warning, no output file for its id under any transform subdirectory, no
\* advance of the progress counter, and the run goes on to the next image.
C2_MissingMaskIsSkipped == []C2_NothingWritten /\ [][C2_SkipStep]_vars

\* A completed run that skipped an image for its missing mask and wrote
\* the outputs of another
C2_Witness ==
    /\ pc = "done"
    /\ Len(wlog) > 0
    /\ \E j \in 1..Len(image_files) : Decoded(j) /\ MaskMissing(j)

----------------------------------------------------------------------------
(* C3 *)

\* Of the images the loop has passed
C3_Body ==
    \A j \in 1..(idx - 1) :
        ~Decoded(j) =>
            /\ \E k \in 1..Len(out) : out[k] = <<"warn_image", Name(j)>>
            /\ Len(WritesOf(j)) = 0
            /\ \A m \in (j + 1)..Len(image_files) : Paired(m) => AllWritten(m)

\* C3 as stated: at the end of any run, every image that the run reached and
\* that failed to decode has its warning and no output, and every later image that decodes and has a
\* mask file has all of its outputs.
C3_Original == pc \in {"done", "crashed"} => C3_Body

\* C3 as amended: the same at the end of a run that no fatal error ended; and
\* in every state no output has been written for an image that fails to decode.
C3_DecodeFailureIsContained ==
    /\ pc = "done" => C3_Body
    /\ \A j \in 1..Len(image_files) : ~Decoded(j) => Len(WritesOf(j)) = 0

\* A completed run in which a pair follows an image that failed to decode
C3_Witness ==
    /\ pc = "done"
    /\ \E j, m \in 1..Len(image_files) : j < m /\ ~Decoded(j) /\ Paired(m)

----------------------------------------------------------------------------
(* C4 *)

\* C4 as stated: the mask just written has the shape of the image written
\* alongside it, whatever the shapes of the input image and the input mask.
C4_Original ==
    LastPairWritten => Shape(disk[LastMaskPath]) = Shape(disk[LastImagePath])

\* C4 as amended: the same, for the pairs whose input image and input mask
\* have the same shape.
C4_SameShapeForMatchingInputs ==
    (LastPairWritten /\ Shape(xData[Name(LastSource)]) = Shape(LastInputMask))
        => Shape(disk[LastMaskPath]) = Shape(disk[LastImagePath])

\* A warped pair of a shape that is not square, from inputs of the same shape
C4_Witness ==
    /\ LastPairWritten
    /\ LastMaskPath[2] = "ShiftScaleRotate"
    /\ Shape(xData[Name(LastSource)]) = Shape(LastInputMask)
    /\ Shape(disk[LastMaskPath]) = <<1, 2>>

----------------------------------------------------------------------------
(* C5 *)

\* C5: the mask written by RandomBrightnessContrast, Defocus, GlassBlur or
\* ISONoise is the input mask as read from the mask directory.
C5_MaskUntouchedByPhotometric ==
    (LastPairWritten /\ LastMaskPath[2] # "ShiftScaleRotate")
        => /\ LastMaskPath[2] \in
                {"RandomBrightnessContrast", "Defocus", "GlassBlur", "ISONoise"}
           /\ disk[LastMaskPath] = LastInputMask

\* A photometric transform has written its mask while the warped mask of an
\* earlier run, which differs from the input mask, is on disk
C5_Witness ==
    /\ LastPairWritten
    /\ LastMaskPath[2] = "ISONoise"
    /\ \E q \in DOMAIN disk :
          q[1] = "augmented_y" /\ q[2] = "ShiftScaleRotate" /\ disk[q] # LastInputMask

----------------------------------------------------------------------------
(* C6 *)

\* C6: the second run on unchanged inputs creates no output path and removes
\* none: each of its steps leaves the set of paths under augmented_x/ and
\* augmented_y/ as the first run left it.
C6_SecondRunSamePaths == [][run' = "second" => DOMAIN disk' = DOMAIN disk]_vars

\* The second run has completed after rewriting the outputs of two images
C6_Witness ==
    /\ run = "second"
    /\ pc = "done"
    /\ Len(wlog) = 20

----------------------------------------------------------------------------
(* C7 *)

\* C7 as stated: a discovered file whose name has no "_" is never passed by
\* the loop, is never warned about, and the run never completes.
C7_Original ==
    \A j \in 1..Len(image_files) :
        ~HasDelimiter(Name(j)) =>
            /\ idx <= j
            /\ \A k \in 1..Len(out) : out[k] # <<"warn_image", Name(j)>>
            /\ pc # "done"

C7_State ==
    /\ error = "IndexError" =>
         /\ pc = "crashed"
         /\ idx <= Len(image_files)
         /\ ~HasDelimiter(Name(idx))
         /\ Decoded(idx)
         /\ \A k \in 1..Len(out) : out[k] \notin {<<"completed">>, <<"warn_image", Name(idx)>>}
         /\ \A k \in 1..Len(wlog) : wlog[k][1] < idx /\ wlog[k][2] \in DOMAIN disk
    /\ \A j \in 1..Len(image_files) :
         (~HasDelimiter(Name(j)) /\ Decoded(j)) => (idx <= j /\ pc # "done")
    /\ \A j \in 1..(idx - 1) :
         ~HasDelimiter(Name(j)) =>
            /\ ~Decoded(j)
            /\ \E k \in 1..Len(out) : out[k] = <<"warn_image", Name(j)>>

C7_ReachStep ==
    (/\ pc = "loop"
     /\ idx <= Len(image_files)
     /\ Decoded(idx)
     /\ ~HasDelimiter(Name(idx)))
    => /\ pc' = "crashed"
       /\ error' = "IndexError"
       /\ UNCHANGED <<idx, out, disk, dirs, wlog, counter>>

C7_AfterCrash == pc = "crashed" => (run' = "second" /\ UNCHANGED <<disk, dirs>>)

\* C7 as amended: a discovered file that decodes and whose name has no "_" ends
\* the run with an unhandled IndexError when the loop reaches it: no warning
\* for it, no later file processed, no completion message, the outputs of the
\* earlier files still on disk.  A file without "_" that fails to decode is
\* warned about and skipped.
C7_DecodedNoDelimiterIsFatal ==
    []C7_State /\ [][C7_ReachStep]_vars /\ [][C7_AfterCrash]_vars

\* The run died of the IndexError after writing an earlier image's outputs
C7_Witness ==
    /\ error = "IndexError"
    /\ Len(wlog) = 10

----------------------------------------------------------------------------
(* C8 *)

C8_Counting ==
    /\ pc # "start" => total_outputs = Len(image_files) * 5
    /\ \A k \in 1..Len(SavedLines) :
          SavedLines[k][2] = k /\ SavedLines[k][3] = total_outputs
    /\ Len(SavedLines) = counter - 1
    /\ Len(SelectSeq(wlog, LAMBDA w : w[2][1] = "augmented_y")) = Len(SavedLines)
    /\ counter - 1 <= total_outputs

C8_LastIsTotalIffNoSkip == (counter - 1 = total_outputs) <=> (Len(WarningLines) = 0)

\* C8 as stated: at the end of any run the last printed k equals total
\* exactly when no image was skipped.
C8_Original == pc \in {"done", "crashed"} => C8_LastIsTotalIffNoSkip

\* C8 as amended: total is the number of discovered images times five, k runs
\* 1, 2, 3, ... one per saved pair and never exceeds total; at the end of a run
\* that no fatal error ended, the last printed k equals total exactly when no
\* image was skipped.
C8_ProgressCounter ==
    /\ C8_Counting
    /\ pc = "done" => C8_LastIsTotalIffNoSkip

\* A completed run that saved pairs and skipped an image: k stops short of total
C8_Witness ==
    /\ pc = "done"
    /\ counter = 6
    /\ total_outputs = 10

----------------------------------------------------------------------------
(* C9 *)

\* C9: the writes of a run go image by image in listing order; the writes of
\* one image go through the transforms in list order, image file then mask
\* file; and the loop passes an image only after all ten writes of a pair.
C9_ImageByImageInListOrder ==
    /\ \A k \in 1..(Len(wlog) - 1) : wlog[k][1] <= wlog[k + 1][1]
    /\ \A k \in 1..Len(wlog) : wlog[k][1] <= idx
    /\ \A j \in 1..Len(image_files) :
          \A m \in 1..Len(WritesOf(j)) :
             /\ WritesOf(j)[m][2][1] = (IF m % 2 = 1 THEN "augmented_x" ELSE "augmented_y")
             /\ WritesOf(j)[m][2][2] = ListOrder[(m + 1) \div 2]
    /\ \A j \in 1..(idx - 1) : Paired(j) => Len(WritesOf(j)) = 10

\* Two pairs have been processed one after the other
C9_Witness ==
    /\ pc = "loop"
    /\ idx = 3
    /\ Len(wlog) = 20

----------------------------------------------------------------------------
(* C10 *)

\* C10: within one run no two distinct discovered image files write to the
\* same output path.
C10_NoSharedOutputPath ==
    \A a, b \in 1..Len(wlog) : wlog[a][2] = wlog[b][2] => wlog[a][1] = wlog[b][1]

====
